---- MODULE Spec2Model ----
(***************************************************************************)
(* A model of the watch tracker (src/app.js): the WatchTracker controller  *)
(* (loadWatches, refresh, saveToCache, loadFromCache), the per-source      *)
(* scraper scrapeShopifyStore and the two localStorage slots.              *)
(*                                                                         *)
(* JavaScript runs every handler to its next await without interleaving,   *)
(* so an action is one such run: a call of refresh() up to its first       *)
(* await, the resolution of fetch(), the resolution of response.json().    *)
(*                                                                         *)
(* Strings are sequences of one-character strings; a JavaScript value is a *)
(* record tagged by its type in field k.                                   *)
(***************************************************************************)
EXTENDS Integers, Sequences, FiniteSets, TLC

(***************************************************************************)
(* Bounds of the model.                                                    *)
(***************************************************************************)
\* the registry WATCH_SOURCES holds at most this many sources
MaxSources == 2
\* at most this many runs of refresh() are under way at once (the guard of
\* refresh keeps them to one)
MaxActive == 2
\* Date.now() runs from 1 to MaxNow
MaxNow == 2
\* a long feed repeats its pattern up to this many products past MAX_WATCHES
MaxExtra == 1

\* a feed given to a scraper called by itself holds at most this many
\* entries
MaxEntries == 2
\* a document given to a scraper called by itself holds at most this many
\* product items and this many product links
MaxElements == 2

(***************************************************************************)
(* Program constants.                                                      *)
(***************************************************************************)
MAX_WATCHES == 10

(***************************************************************************)
(* JavaScript values.                                                      *)
(***************************************************************************)
Undefined == [k |-> "undefined"]
Null == [k |-> "null"]
NaN == [k |-> "nan"]
Num(n) == [k |-> "number", n |-> n]
Str(s) == [k |-> "string", s |-> s]
Arr(items) == [k |-> "array", items |-> items]

\* ToBoolean: undefined, null, NaN, 0 and "" are falsy, everything else truthy
Truthy(v) ==
    CASE v.k \in {"undefined", "null", "nan"} -> FALSE
      [] v.k = "number" -> v.n # 0
      [] v.k = "string" -> v.s # <<>>
      [] OTHER -> TRUE

(***************************************************************************)
(* Strings.                                                                *)
(***************************************************************************)
DigitChars == <<"0", "1", "2", "3", "4", "5", "6", "7", "8", "9">>

IsDigit(c) == \E i \in 1..10 : DigitChars[i] = c

DigitVal(c) == (CHOOSE i \in 1..10 : DigitChars[i] = c) - 1

IsSpace(c) == c = " "

RECURSIVE TrimStart(_)
TrimStart(s) ==
    IF s # <<>> /\ IsSpace(Head(s)) THEN TrimStart(Tail(s)) ELSE s

RECURSIVE TrimEnd(_)
TrimEnd(s) ==
    IF s # <<>> /\ IsSpace(s[Len(s)]) THEN TrimEnd(SubSeq(s, 1, Len(s) - 1)) ELSE s

\* String.prototype.trim
Trim(s) == TrimEnd(TrimStart(s))

\* the longest prefix of s made of decimal digits
RECURSIVE DigitPrefix(_)
DigitPrefix(s) ==
    IF s # <<>> /\ IsDigit(Head(s)) THEN <<Head(s)>> \o DigitPrefix(Tail(s)) ELSE <<>>

\* the value of a sequence of decimal digits
RECURSIVE DigitsToNat(_)
DigitsToNat(ds) ==
    IF ds = <<>> THEN 0
    ELSE 10 * DigitsToNat(SubSeq(ds, 1, Len(ds) - 1)) + DigitVal(ds[Len(ds)])

\* Number.prototype.toString of a natural number
RECURSIVE NatToStr(_)
NatToStr(n) ==
    IF n < 10 THEN <<DigitChars[n + 1]>>
    ELSE NatToStr(n \div 10) \o <<DigitChars[(n % 10) + 1]>>

\* Number.prototype.toString of an integer
IntToStr(n) == IF n < 0 THEN <<"-">> \o NatToStr(-n) ELSE NatToStr(n)

InfinityStr == <<"I", "n", "f", "i", "n", "i", "t", "y">>

StartsWith(s, p) == Len(s) >= Len(p) /\ SubSeq(s, 1, Len(p)) = p

(***************************************************************************)
(* parseFloat and toFixed(2) (src/app.js:253-257).  A parsed number is     *)
(* [k |-> "dec", neg, int, frac]: sign, integer part and the digits behind *)
(* the decimal point, or [k |-> "inf", neg], or NaN.                       *)
(***************************************************************************)
Dec(neg, int, frac) == [k |-> "dec", neg |-> neg, int |-> int, frac |-> frac]

\* parseFloat of a string: leading blanks, a sign, then Infinity or
\* digits [. digits]; whatever follows is ignored
ParseFloatStr(s) ==
    LET t == TrimStart(s)
        signed == t # <<>> /\ Head(t) \in {"-", "+"}
        neg == t # <<>> /\ Head(t) = "-"
        u == IF signed THEN Tail(t) ELSE t
        ip == DigitPrefix(u)
        r == SubSeq(u, Len(ip) + 1, Len(u))
        fp == IF r # <<>> /\ Head(r) = "." THEN DigitPrefix(Tail(r)) ELSE <<>>
    IN  IF StartsWith(u, InfinityStr) THEN [k |-> "inf", neg |-> neg]
        ELSE IF ip = <<>> /\ fp = <<>> THEN NaN
        ELSE Dec(neg, DigitsToNat(ip), fp)

\* parseFloat(v): the argument is converted to a string first
ParseFloat(v) ==
    CASE v.k = "string" -> ParseFloatStr(v.s)
      [] v.k = "number" -> Dec(v.n < 0, IF v.n < 0 THEN -v.n ELSE v.n, <<>>)
      [] OTHER -> NaN

\* the i-th digit behind the decimal point
FracDigit(d, i) == IF i <= Len(d.frac) THEN DigitVal(d.frac[i]) ELSE 0

\* the digits from the fourth on are not all zero
RECURSIVE NonZeroFrom(_, _)
NonZeroFrom(ds, i) ==
    i <= Len(ds) /\ (DigitVal(ds[i]) # 0 \/ NonZeroFrom(ds, i + 1))

\* the number in hundredths, rounded to the nearest (the inputs of the
\* model hold no exact half, where the binary value of the double decides)
Hundredths(d) ==
    d.int * 100 + FracDigit(d, 1) * 10 + FracDigit(d, 2)
    + (IF FracDigit(d, 3) > 5 \/ (FracDigit(d, 3) = 5 /\ NonZeroFrom(d.frac, 4))
       THEN 1 ELSE 0)

IsZero(d) == d.int = 0 /\ \A i \in 1..Len(d.frac) : DigitVal(d.frac[i]) = 0

\* Number.prototype.toFixed(2)
ToFixed2(d) ==
    CASE d.k = "nan" -> <<"N", "a", "N">>
      [] d.k = "inf" -> (IF d.neg THEN <<"-">> ELSE <<>>) \o InfinityStr
      [] OTHER ->
            LET h == Hundredths(d)
            IN  (IF d.neg /\ ~IsZero(d) THEN <<"-">> ELSE <<>>)
                \o NatToStr(h \div 100) \o <<".">>
                \o <<DigitChars[((h \div 10) % 10) + 1], DigitChars[(h % 10) + 1]>>

(***************************************************************************)
(* new Date(s).getTime() (src/app.js:260).  In the model a date string     *)
(* made of decimal digits stands for the well-formed date whose epoch      *)
(* milliseconds it spells; every other string is not a date.               *)
(***************************************************************************)
DateGetTime(v) ==
    IF v.k = "string" /\ v.s # <<>> /\ \A i \in 1..Len(v.s) : IsDigit(v.s[i])
    THEN Num(DigitsToNat(v.s))
    ELSE IF v.k = "number" THEN v
    ELSE NaN

\* parseInt(s, 10) of a string (src/app.js:201)
ParseInt10(s) ==
    LET t == TrimStart(s)
        signed == t # <<>> /\ Head(t) \in {"-", "+"}
        u == IF signed THEN Tail(t) ELSE t
        ip == DigitPrefix(u)
    IN  IF ip = <<>> THEN NaN
        ELSE Num(IF Head(t) = "-" THEN -DigitsToNat(ip) ELSE DigitsToNat(ip))

(***************************************************************************)
(* scrapeShopifyStore (src/app.js:223-276), from the point where           *)
(* response.json() has resolved with data.  A product of the feed is       *)
(* [k |-> "object", title, variants, created_at] or a value that is no     *)
(* object; a variant is [k |-> "object", price] or a value that is none.   *)
(***************************************************************************)
CurrencySymbol == <<"£">>

\* product.variants && product.variants[0]
FirstVariant(product) ==
    IF product.variants.k = "array" /\ product.variants.items # <<>>
    THEN product.variants.items[1]
    ELSE Undefined

\* the title passes the check of line 245
ValidName(name) ==
    Truthy(name) /\ name.k = "string" /\ Len(Trim(name.s)) # 0

\* the callback without the isNaN test of lines 254-256
ShopifyProductNoPriceCheck(source, product, now) ==
    IF product.k # "object" THEN <<>>
    ELSE IF ~ValidName(product.title) THEN <<>>
    ELSE LET variant == FirstVariant(product)
         IN  IF variant.k # "object" \/ ~Truthy(variant.price) THEN <<>>
             ELSE << [name |-> product.title.s,
                      price |-> CurrencySymbol \o ToFixed2(ParseFloat(variant.price)),
                      source |-> source.name,
                      timestamp |-> IF Truthy(product.created_at)
                                    THEN DateGetTime(product.created_at)
                                    ELSE Num(now)] >>

\* the callback of data.products.forEach: the records one product adds to
\* watches, none when the product is skipped.  Reading a property of null or
\* undefined throws a TypeError, which line 268 catches.
ShopifyProduct(source, product, now) ==
    IF product.k # "object" THEN <<>>
    ELSE IF ~ValidName(product.title) THEN <<>>
    ELSE LET variant == FirstVariant(product)
         IN  IF variant.k # "object" \/ ~Truthy(variant.price) THEN <<>>
             ELSE LET priceValue == ParseFloat(variant.price)
                  IN  IF priceValue.k = "nan" THEN <<>>
                      ELSE << [name |-> product.title.s,
                               price |-> CurrencySymbol \o ToFixed2(priceValue),
                               source |-> source.name,
                               timestamp |-> IF Truthy(product.created_at)
                                             THEN DateGetTime(product.created_at)
                                             ELSE Num(now)] >>

RECURSIVE ForEachProduct(_, _, _)
ForEachProduct(source, products, now) ==
    IF products = <<>> THEN <<>>
    ELSE ShopifyProduct(source, Head(products), now)
         \o ForEachProduct(source, Tail(products), now)

\* body is what response.json() settled with: [k |-> "reject"] when the
\* body is no JSON, else the parsed data.  The result is [ok |-> FALSE] when
\* the scraper throws and [ok |-> TRUE, watches |-> ...] when it returns.
scrapeShopifyStore(source, body, now) ==
    IF body.k # "object" THEN [ok |-> FALSE, watches |-> <<>>]
    ELSE IF body.products.k # "array" THEN [ok |-> FALSE, watches |-> <<>>]
    ELSE [ok |-> TRUE, watches |-> ForEachProduct(source, body.products.items, now)]

\* a status check that is left out: only a rejected fetch fails
ShopifyCallAnyStatus(source, response, body, now) ==
    IF response = "reject" THEN [ok |-> FALSE, watches |-> <<>>]
    ELSE scrapeShopifyStore(source, body, now)

\* a call of scrapeShopifyStore from its start (src/app.js:223-236): fetch
\* rejects, or resolves with a response that is ok or not, whose body is body
ShopifyCall(source, response, body, now) ==
    IF response # "ok" THEN [ok |-> FALSE, watches |-> <<>>]
    ELSE scrapeShopifyStore(source, body, now)

(***************************************************************************)
(* The aggregation of refresh (src/app.js:116-119).                        *)
(***************************************************************************)
\* (w.timestamp || 0)
SortKey(w) == IF Truthy(w.timestamp) THEN w.timestamp.n ELSE 0

\* the comparator of line 118: negative when a goes before b
Compare(a, b) == SortKey(b) - SortKey(a)

\* x put behind every element it does not go before
RECURSIVE InsertSorted(_, _)
InsertSorted(sorted, x) ==
    IF sorted = <<>> THEN <<x>>
    ELSE IF Compare(x, Head(sorted)) < 0 THEN <<x>> \o sorted
    ELSE <<Head(sorted)>> \o InsertSorted(Tail(sorted), x)

\* Array.prototype.sort with the comparator of line 118 (a stable sort)
RECURSIVE SortByDate(_)
SortByDate(ws) ==
    IF ws = <<>> THEN <<>>
    ELSE InsertSorted(SortByDate(SubSeq(ws, 1, Len(ws) - 1)), ws[Len(ws)])

\* .slice(0, n)
Slice(ws, n) == SubSeq(ws, 1, IF Len(ws) < n THEN Len(ws) ELSE n)

\* the last record of each name, in the order of ws
RECURSIVE LastOfName(_)
LastOfName(ws) ==
    IF ws = <<>> THEN <<>>
    ELSE LET rest == LastOfName(Tail(ws))
         IN  IF \E i \in DOMAIN rest : rest[i].name = Head(ws).name THEN rest
             ELSE <<Head(ws)>> \o rest

\* the first record of each name, in the order of ws
RECURSIVE FirstOfName(_)
FirstOfName(ws) ==
    IF ws = <<>> THEN <<>>
    ELSE LET rest == FirstOfName(SubSeq(ws, 1, Len(ws) - 1))
             x == ws[Len(ws)]
         IN  IF \E i \in DOMAIN rest : rest[i].name = x.name THEN rest
             ELSE Append(rest, x)

\* an aggregation that keeps the first record of each name before it sorts
TopWatchesDedup(allWatches) == Slice(SortByDate(FirstOfName(allWatches)), MAX_WATCHES)

\* lines 117-119
TopWatches(allWatches) == Slice(SortByDate(allWatches), MAX_WATCHES)

(***************************************************************************)
(* scrapeFalcoWatches (src/app.js:546-641).  The parsed document is what   *)
(* the selectors of the scraper find in it: items, the elements            *)
(* querySelectorAll of line 563 gives, each with the textContent of its    *)
(* name element and of its price element (Null when querySelector finds    *)
(* none), and links, the elements querySelectorAll of line 603 gives, each *)
(* with the container closest() finds (Null when none), seen the same way, *)
(* and its own textContent.                                                *)
(***************************************************************************)
FalcoSource == <<"F", "a", "l", "c", "o", " ", "W", "a", "t", "c", "h", "e", "s">>

NoSize == <<"N", "/", "A">>

NoPrice == <<"P", "r", "i", "c", "e", " ", "N", "/", "A">>

Quick == <<"q", "u", "i", "c", "k">>

UpperChars == <<"A", "B", "C", "D", "E", "F", "G", "H", "I", "J", "K", "L", "M", "N", "O", "P", "Q", "R", "S", "T", "U", "V", "W", "X", "Y", "Z">>

LowerChars == <<"a", "b", "c", "d", "e", "f", "g", "h", "i", "j", "k", "l", "m", "n", "o", "p", "q", "r", "s", "t", "u", "v", "w", "x", "y", "z">>

\* String.prototype.toLowerCase
ToLowerCase(s) ==
    [i \in 1..Len(s) |->
        IF \E j \in 1..Len(UpperChars) : UpperChars[j] = s[i]
        THEN LowerChars[CHOOSE j \in 1..Len(UpperChars) : UpperChars[j] = s[i]]
        ELSE s[i]]

\* String.prototype.includes
Includes(s, sub) ==
    \E i \in 1..(Len(s) - Len(sub) + 1) : SubSeq(s, i, i + Len(sub) - 1) = sub

\* the first position from i on that holds no digit
RECURSIVE SkipDigits(_, _)
SkipDigits(s, i) == IF i <= Len(s) /\ IsDigit(s[i]) THEN SkipDigits(s, i + 1) ELSE i

\* the first position from i on that holds no blank
RECURSIVE SkipSpaces(_, _)
SkipSpaces(s, i) == IF i <= Len(s) /\ IsSpace(s[i]) THEN SkipSpaces(s, i + 1) ELSE i

\* where a match of \d+\.?\d*\s*mm (any case) that starts at the digit s[i]
\* ends, 0 when there is none
SizeMatchEnd(s, i) ==
    LET a == SkipDigits(s, i)
        b == IF a <= Len(s) /\ s[a] = "." THEN a + 1 ELSE a
        c == SkipDigits(s, b)
        d == SkipSpaces(s, c)
    IN  IF d + 1 <= Len(s) /\ s[d] \in {"m", "M"} /\ s[d + 1] \in {"m", "M"}
        THEN d + 1 ELSE 0

\* name.match(/(\d+\.?\d*\s*mm)/i): the leftmost match, Null when none
SizeMatch(s) ==
    LET starts == {i \in 1..Len(s) : IsDigit(s[i]) /\ SizeMatchEnd(s, i) # 0}
    IN  IF starts = {} THEN Null
        ELSE LET i == CHOOSE i \in starts : \A j \in starts : i <= j
             IN  Str(SubSeq(s, i, SizeMatchEnd(s, i)))

\* element ? element.textContent.trim() : otherwise
TextOr(text, otherwise) == IF text.k = "string" THEN Str(Trim(text.s)) ELSE otherwise

\* the callback of productItems.forEach (lines 565-596)
FalcoItem(item, now) ==
    LET name == TextOr(item.name, Null)
        price == TextOr(item.price, Null)
        size == IF Truthy(name) THEN SizeMatch(name.s) ELSE Null
    IN  IF Truthy(name) /\ Truthy(price)
        THEN << [name |-> name.s, price |-> price.s,
                 size |-> IF Truthy(size) THEN size.s ELSE NoSize,
                 source |-> FalcoSource, timestamp |-> Num(now)] >>
        ELSE <<>>

\* a callback that takes a name whatever words it holds
FalcoLinkAnyWords(link, now) ==
    IF link.container.k # "object" THEN <<>>
    ELSE LET name == TextOr(link.container.name, Str(Trim(link.text)))
             price == TextOr(link.container.price, Str(NoPrice))
         IN  IF Truthy(name) /\ Len(name.s) > 3
             THEN LET sizeMatch == SizeMatch(name.s)
                  IN  << [name |-> name.s, price |-> price.s,
                          size |-> IF Truthy(sizeMatch) THEN sizeMatch.s ELSE NoSize,
                          source |-> FalcoSource, timestamp |-> Num(now)] >>
             ELSE <<>>

\* the callback of allLinks.forEach (lines 605-630)
FalcoLink(link, now) ==
    IF link.container.k # "object" THEN <<>>
    ELSE LET name == TextOr(link.container.name, Str(Trim(link.text)))
             price == TextOr(link.container.price, Str(NoPrice))
         IN  IF Truthy(name) /\ ~Includes(ToLowerCase(name.s), Quick) /\ Len(name.s) > 3
             THEN LET sizeMatch == SizeMatch(name.s)
                  IN  << [name |-> name.s, price |-> price.s,
                          size |-> IF Truthy(sizeMatch) THEN sizeMatch.s ELSE NoSize,
                          source |-> FalcoSource, timestamp |-> Num(now)] >>
             ELSE <<>>

\* productItems.forEach: what the primary pass pushes
RECURSIVE PrimaryPass(_, _)
PrimaryPass(items, now) ==
    IF items = <<>> THEN <<>>
    ELSE FalcoItem(Head(items), now) \o PrimaryPass(Tail(items), now)

\* allLinks.forEach: what the fallback pass pushes
RECURSIVE FallbackPass(_, _)
FallbackPass(links, now) ==
    IF links = <<>> THEN <<>>
    ELSE FalcoLink(Head(links), now) \o FallbackPass(Tail(links), now)

\* a fallback that runs whatever the primary pass found
FallbackAlways(found) == TRUE

\* line 599
FallbackRuns(found) == Len(found) = 0

\* a call of scrapeFalcoWatches: fetch rejects, or resolves with a response
\* that is ok or not; body is [k |-> "reject"] when response.text() rejects,
\* else the document.  warned says that line 600 wrote its warning.
scrapeFalcoWatches(response, body, now) ==
    IF response # "ok" \/ body.k # "html"
    THEN [ok |-> FALSE, watches |-> <<>>, warned |-> FALSE]
    ELSE LET primary == PrimaryPass(body.items, now)
             warned == FallbackRuns(primary)
             found == IF warned THEN primary \o FallbackPass(body.links, now)
                      ELSE primary
         IN  [ok |-> TRUE, watches |-> FirstOfName(found), warned |-> warned]

(***************************************************************************)
(* The cache (src/app.js:184-208).  A storage slot is Null when the key is *)
(* absent, [k |-> "json", v] when it holds the JSON text of the value v,   *)
(* and [k |-> "text", s] when it holds the string s, which is no JSON.     *)
(***************************************************************************)
\* a number in JSON: NaN is written as null
JsonOfValue(v) == IF v.k = "nan" THEN Null ELSE v

\* one watch in JSON: the strings as they are
JsonOfWatch(w) ==
    [f \in DOMAIN w |-> IF f = "timestamp" THEN JsonOfValue(w[f]) ELSE w[f]]

\* JSON.stringify(this.watches)
JSONstringify(ws) ==
    [k |-> "json", v |-> [i \in 1..Len(ws) |-> JsonOfWatch(ws[i])]]

\* the string in the slot is truthy: not absent and not empty
SlotTruthy(slot) ==
    CASE slot.k = "null" -> FALSE
      [] slot.k = "text" -> slot.s # <<>>
      [] OTHER -> TRUE

WriteFaults == {"none", "first", "second"}

\* a save that writes the timestamp slot before the records slot
saveToCacheTimestampFirst(store, ws, now, fault) ==
    CASE fault = "first" -> store
      [] fault = "second" ->
            [store EXCEPT !.timestamp = [k |-> "text", s |-> IntToStr(now)]]
      [] OTHER -> [watches |-> JSONstringify(ws),
                   timestamp |-> [k |-> "text", s |-> IntToStr(now)]]

\* saveToCache: fault names the setItem that throws (a full or disabled
\* storage), if any; the catch of line 188 ends the function there
saveToCache(store, ws, now, fault) ==
    CASE fault = "first" -> store
      [] fault = "second" -> [store EXCEPT !.watches = JSONstringify(ws)]
      [] OTHER -> [watches |-> JSONstringify(ws),
                   timestamp |-> [k |-> "text", s |-> IntToStr(now)]]

\* a read that looks at the records slot only
loadFromCacheAnyTime(store) ==
    IF SlotTruthy(store.watches) /\ store.watches.k = "json"
    THEN [k |-> "cached", watches |-> store.watches.v,
          timestamp |-> IF SlotTruthy(store.timestamp)
                        THEN ParseInt10(store.timestamp.s) ELSE NaN]
    ELSE Null

\* loadFromCache: Null, or the cached watches and timestamp
loadFromCache(store) ==
    IF SlotTruthy(store.watches) /\ SlotTruthy(store.timestamp)
    THEN IF store.watches.k = "json"
         THEN [k |-> "cached", watches |-> store.watches.v,
               timestamp |-> ParseInt10(store.timestamp.s)]
         ELSE Null
    ELSE Null

(***************************************************************************)
(* The registry WATCH_SOURCES (src/app.js:7-24): a sequence of sources in  *)
(* the order of Object.entries.                                            *)
(***************************************************************************)
SourceName(i) == <<"S", DigitChars[i + 1]>>

Registries ==
    UNION {{[i \in 1..n |-> [name |-> SourceName(i), enabled |-> en[i],
                             scraper |-> "scrapeShopifyStore"]] :
            en \in [1..n -> BOOLEAN]} : n \in 0..MaxSources}

\* the first enabled source behind position i of the loop of line 100, 0
\* when there is none
NextEnabled(reg, i) ==
    IF \E j \in (i + 1)..Len(reg) : reg[j].enabled
    THEN CHOOSE j \in (i + 1)..Len(reg) :
            reg[j].enabled /\ \A h \in (i + 1)..(j - 1) : ~reg[h].enabled
    ELSE 0

(***************************************************************************)
(* What the network may answer.                                            *)
(***************************************************************************)
Variant(price) == [k |-> "object", price |-> price]

Product(title, variants, created) ==
    [k |-> "object", title |-> title, variants |-> variants, created_at |-> created]

\* A, created at 2
ProductA == Product(Str(<<"A">>), Arr(<<Variant(Str(<<"5">>))>>), Str(<<"2">>))

\* A again, with a created_at that is no date
ProductAx == Product(Str(<<"A">>), Arr(<<Variant(Str(<<"5">>))>>), Str(<<"x">>))

\* B, without created_at
ProductB == Product(Str(<<"B">>), Arr(<<Variant(Str(<<"7", ".", "5">>))>>), Undefined)

\* a product without a title
ProductNoTitle == Product(Undefined, Arr(<<Variant(Str(<<"5">>))>>), Str(<<"2">>))

SmallFeeds ==
    { <<>>, <<ProductNoTitle, ProductB>>, <<ProductA, ProductAx>> }

Feed(products) == [k |-> "object", products |-> Arr(products)]

\* a feed of n products with the titles W1, ..., W7, W0, W1, ...; pattern
\* says what their created_at are
LongProduct(i, n, pattern) ==
    Product(Str(<<"W">> \o NatToStr(i % 8)), Arr(<<Variant(Str(<<"5">>))>>),
            CASE pattern = "rising" -> Str(NatToStr(i))
              [] pattern = "falling" -> Str(NatToStr(n - i))
              [] pattern = "equal" -> Str(<<"3">>)
              [] pattern = "absent" -> Undefined
              [] OTHER -> IF i = 2 THEN Str(<<"x">>) ELSE Str(NatToStr(i)))

LongFeeds ==
    {Feed([i \in 1..n |-> LongProduct(i, n, pattern)]) :
        n \in {1} \cup (MAX_WATCHES..(MAX_WATCHES + MaxExtra)),
        pattern \in {"rising", "falling", "equal", "absent", "nodate"}}

BrokenBodies ==
    { [k |-> "reject"], Null, [k |-> "object", products |-> Undefined],
      [k |-> "object", products |-> Str(<<"x">>)] }

\* the bodies response.json() may settle with
Bodies(w) ==
    BrokenBodies \cup
    (IF w = "long" THEN LongFeeds
     ELSE {Feed(ps) : ps \in SmallFeeds})

\* what localStorage may hold when the page is opened
CachedWatch ==
    [name |-> <<"C">>, price |-> <<"£", "9", ".", "0", "0">>,
     source |-> SourceName(1), timestamp |-> Num(1)]

InitialStores ==
    [watches : {Null, [k |-> "text", s |-> <<"{">>], JSONstringify(<<CachedWatch>>)},
     timestamp : {Null, [k |-> "text", s |-> <<"1">>]}]

(***************************************************************************)
(* The state.                                                              *)
(***************************************************************************)
VARIABLES
    registry,    \* WATCH_SOURCES
    world,       \* which bodies the network answers with
    faults,      \* which setItem calls the storage may refuse
    storage,     \* localStorage: the slots STORAGE_KEY and STORAGE_TIMESTAMP_KEY
    now,         \* Date.now()
    watches,     \* this.watches
    loading,     \* this.loading
    errorShown,  \* the error element is displayed
    lastUpdate,  \* the time updateLastUpdateTime was last given, Null before
    started,     \* the constructor has run
    cycles,      \* the runs of refresh() that are suspended at an await
    ignored,     \* a call of refresh() returned at line 87 while the run under way waits
    last,        \* the last run of refresh() that came to its end
    given,       \* the response and body a scraper called by itself is given
    returned     \* what that call returned, NotCalled before it

vars == <<registry, world, faults, storage, now, watches, loading, errorShown,
          lastUpdate, started, cycles, ignored, last, given, returned>>

\* a run of refresh(): the source it waits for (key), whether for the
\* response or for its body (pc), the scraper calls that have not settled
\* (pending), the local allWatches, and what each source gave so far (log)
Cycle(pc, key, pending, allWatches, log) ==
    [pc |-> pc, key |-> key, pending |-> pending, allWatches |-> allWatches, log |-> log]

NoRun == [result |-> "none", gathered |-> <<>>, log |-> <<>>]

NotCalled == [k |-> "none"]

InitCommon ==
    /\ registry \in Registries
    /\ now = 1
    /\ watches = <<>>
    /\ loading = FALSE
    /\ errorShown = FALSE
    /\ lastUpdate = Null
    /\ started = FALSE
    /\ cycles = <<>>
    /\ ignored = FALSE
    /\ last = NoRun
    /\ given = NotCalled
    /\ returned = NotCalled

Init ==
    /\ InitCommon
    /\ world = "small"
    /\ faults = {"none"}
    /\ storage \in InitialStores

InitLong ==
    /\ InitCommon
    /\ Len(registry) = 1
    /\ world = "long"
    /\ faults = {"none"}
    /\ storage = [watches |-> Null, timestamp |-> Null]

(***************************************************************************)
(* refresh (src/app.js:86-130).                                            *)
(***************************************************************************)
\* a guard that lets every call through
NeverReentrant(isLoading) == FALSE

\* line 87: the call returns at once
Reentrant(isLoading) == isLoading

\* every enabled source from j on fetched at once, as Promise.all would
FetchesIssuedAll(reg, j) == {k \in j..Len(reg) : reg[k].enabled}

\* line 103: the sources whose scraper is called, and so whose fetch is
\* issued, when the loop reaches the enabled source j
FetchesIssued(reg, j) == {j}

\* a catch around the whole loop: an error ends it
AfterErrorBreak(reg, i) == Len(reg)

\* a catch that tries the source again
AfterErrorRetry(reg, i) == i - 1

\* lines 105-107: the loop position after the scraper of source i threw
AfterError(reg, i) == i

\* a threshold of two records instead of one
NoRecordsOrOne(allWatches) == Len(allWatches) <= 1

\* line 112
NoRecords(allWatches) == Len(allWatches) = 0

\* setLoading(false) on the success path only, without the finally
LoadingAtEndStuck(result) == result = "failed"

\* lines 127-129: this.loading when the run has ended with result
LoadingAtEnd(result) == FALSE

\* a start that leaves the error element as it is
hideErrorKept(shown) == shown

\* hideError (lines 171-173): the error element is displayed afterwards
hideError(shown) == FALSE

\* a result the gathered records are added to
PublishedMerged(previous, allWatches) == TopWatches(previous \o allWatches)

\* lines 117-119: what this.watches, which held previous, is assigned
Published(previous, allWatches) == TopWatches(allWatches)

\* a catch that saves what this.watches holds
CacheAfterFailureSaved(store, ws, t) == saveToCache(store, ws, t, "none")

\* lines 124-126: the storage when the catch block has run
CacheAfterFailure(store, ws, t) == store

\* the fields of the controller a run of refresh reads and writes
Cur == [watches |-> watches, lastUpdate |-> lastUpdate,
        errorShown |-> errorShown, loading |-> loading]

\* sequence s without its n-th element (n = 0: s itself)
Without(s, n) == [i \in 1..(Len(s) - (IF n = 0 THEN 0 ELSE 1)) |->
                    IF n = 0 \/ i < n THEN s[i] ELSE s[i + 1]]

\* The loop of line 100 of run n (0: a run that starts) goes on behind
\* position i with allW gathered: it suspends at the next enabled source, or
\* the refresh runs to its end (lines 112-129).  m holds the controller's
\* fields as the run so far has left them, pending the scraper calls of
\* the run that have not settled.
Proceed(n, i, pending, allW, log, m) ==
    LET j == NextEnabled(registry, i)
        result == IF NoRecords(allW) THEN "failed" ELSE "success"
        top == Published(m.watches, allW)
    IN  IF j # 0
        THEN /\ cycles' =
                  LET c == Cycle("awaitFetch", j,
                                 pending \cup FetchesIssued(registry, j), allW, log)
                  IN  IF n = 0 THEN Append(cycles, c) ELSE [cycles EXCEPT ![n] = c]
             /\ watches' = m.watches
             /\ lastUpdate' = m.lastUpdate
             /\ errorShown' = m.errorShown
             /\ loading' = m.loading
             /\ UNCHANGED <<storage, last>>
        ELSE /\ cycles' = Without(cycles, n)
             /\ watches' = IF result = "success" THEN top ELSE m.watches
             /\ IF result = "success"
                THEN \E fault \in faults : storage' = saveToCache(storage, top, now, fault)
                ELSE storage' = CacheAfterFailure(storage, m.watches, now)
             /\ lastUpdate' = IF result = "success" THEN Num(now) ELSE m.lastUpdate
             /\ errorShown' = IF result = "success" THEN m.errorShown ELSE TRUE
             /\ loading' = LoadingAtEnd(result)
             /\ last' = [result |-> result, gathered |-> allW, log |-> log]

\* a call of refresh(), up to its first await
refresh(m) ==
    IF Reentrant(m.loading)
    THEN /\ watches' = m.watches
         /\ lastUpdate' = m.lastUpdate
         /\ ignored' = TRUE
         /\ UNCHANGED <<storage, loading, errorShown, cycles, last>>
    ELSE /\ Proceed(0, 0, {}, <<>>, <<>>,
                    [m EXCEPT !.loading = TRUE, !.errorShown = hideError(m.errorShown)])
         /\ ignored' = FALSE

\* a startup that goes to the network without looking at the cache
LoadWatchesNoCache ==
    /\ ~started
    /\ started' = TRUE
    /\ refresh(Cur)
    /\ UNCHANGED <<registry, world, faults, now, given, returned>>

\* the constructor and loadWatches (src/app.js:54-59, 73-84)
LoadWatches ==
    /\ ~started
    /\ started' = TRUE
    /\ LET cached == loadFromCache(storage)
       IN  refresh(IF cached # Null
                   THEN [Cur EXCEPT !.watches = cached.watches,
                                    !.lastUpdate = cached.timestamp]
                   ELSE Cur)
    /\ UNCHANGED <<registry, world, faults, now, given, returned>>

\* a click on the refresh button (src/app.js:70)
Click ==
    /\ started
    /\ Len(cycles) < MaxActive
    /\ refresh(Cur)
    /\ UNCHANGED <<registry, world, faults, now, started, given, returned>>

FailedSource(key) == [key |-> key, ok |-> FALSE, watches |-> <<>>]

\* fetch(source.url) of run n settles (src/app.js:225-228): it rejects, or
\* resolves with a response that is ok or not
FetchResolve(n) ==
    /\ n \in 1..Len(cycles)
    /\ cycles[n].pc = "awaitFetch"
    /\ \E response \in {"reject", "notok", "ok"} :
          LET c == cycles[n]
          IN  IF response = "ok"
              THEN /\ cycles' = [cycles EXCEPT ![n].pc = "awaitBody"]
                   /\ UNCHANGED <<storage, watches, loading, errorShown,
                                  lastUpdate, last>>
              ELSE Proceed(n, AfterError(registry, c.key), c.pending \ {c.key},
                           c.allWatches, c.log \o <<FailedSource(c.key)>>, Cur)
    /\ ignored' = (cycles' # <<>> /\ ignored)
    /\ UNCHANGED <<registry, world, faults, now, started, given, returned>>

\* response.json() of run n settles and the scraper runs to its end
\* (src/app.js:230-276), then refresh goes on (lines 104-109)
BodyResolve(n) ==
    /\ n \in 1..Len(cycles)
    /\ cycles[n].pc = "awaitBody"
    /\ \E body \in Bodies(world) :
          LET c == cycles[n]
              out == scrapeShopifyStore(registry[c.key], body, now)
          IN  IF out.ok
              THEN Proceed(n, c.key, c.pending \ {c.key}, c.allWatches \o out.watches,
                           c.log \o <<[key |-> c.key, ok |-> TRUE,
                                       watches |-> out.watches]>>,
                           Cur)
              ELSE Proceed(n, AfterError(registry, c.key), c.pending \ {c.key},
                           c.allWatches, c.log \o <<FailedSource(c.key)>>, Cur)
    /\ ignored' = (cycles' # <<>> /\ ignored)
    /\ UNCHANGED <<registry, world, faults, now, started, given, returned>>

\* time passes while a run waits for the network (only handlers read the
\* clock, so the time that passes while none waits shows the same way)
Tick ==
    /\ cycles # <<>>
    /\ now < MaxNow
    /\ now' = now + 1
    /\ UNCHANGED <<registry, world, faults, storage, watches, loading, errorShown,
                   lastUpdate, started, cycles, ignored, last, given, returned>>

Next ==
    \/ LoadWatches
    \/ Click
    \/ \E n \in 1..MaxActive : FetchResolve(n)
    \/ \E n \in 1..MaxActive : BodyResolve(n)
    \/ Tick

Spec == Init /\ [][Next]_vars

SpecLong == InitLong /\ [][Next]_vars

\* the page on a storage whose setItem may throw (src/app.js:188-190)
InitFaults ==
    /\ InitCommon
    /\ Len(registry) = 1
    /\ world = "small"
    /\ faults = WriteFaults
    /\ storage \in InitialStores

SpecFaults == InitFaults /\ [][Next]_vars

\* every fetch and every body settles in the end
FairSpec ==
    /\ Spec
    /\ WF_vars(\E n \in 1..MaxActive : FetchResolve(n))
    /\ WF_vars(\E n \in 1..MaxActive : BodyResolve(n))

(***************************************************************************)
(* The scrapers called by themselves: a call is given the response of the  *)
(* fetch and the body it carries, and returns once.                        *)
(***************************************************************************)
Price(p) == Arr(<<Variant(p)>>)

\* the entries a feed is made of: well-formed ones, and ones that lack a
\* title, a variant or a price, or whose price is no number, is infinite or
\* is negative
ProbeProducts ==
    { ProductA, ProductAx, ProductB, ProductNoTitle, Null,
      Product(Num(5), Price(Str(<<"5">>)), Str(<<"2">>)),
      Product(Str(<<" ">>), Price(Str(<<"5">>)), Str(<<"2">>)),
      Product(Str(<<"C">>), Undefined, Str(<<"2">>)),
      Product(Str(<<"C">>), Arr(<<>>), Str(<<"2">>)),
      Product(Str(<<"C">>), Price(Undefined), Str(<<"2">>)),
      Product(Str(<<"C">>), Price(Str(<<"a", "b", "c">>)), Str(<<"2">>)),
      Product(Str(<<"D">>), Price(Str(<<"1", "2", ".", "3", "4", "6">>)), Str(<<"3">>)),
      Product(Str(<<"E">>), Price(Str(InfinityStr)), Str(<<"3">>)),
      Product(Str(<<"F">>), Price(Str(<<"-", "5">>)), Str(<<"3">>)) }

SeqsUpTo(S, n) == UNION {[1..m -> S] : m \in 0..n}

ProbeFeeds == {Feed(ps) : ps \in SeqsUpTo(ProbeProducts, MaxEntries)}

\* an element as the scraper sees it: the textContent of its name element
\* and of its price element, Null where querySelector finds none
Elem(name, price) == [k |-> "object", name |-> name, price |-> price]

ProbeItems ==
    { Elem(Str(<<" ", "D", "i", "v", "e", "r", " ", "4", "0", "m", "m", " ">>), Str(<<"$", "5">>)),
      Elem(Str(<<"D", "i", "v", "e", "r", " ", "4", "0", "m", "m">>), Str(<<"$", "6">>)),
      Elem(Str(<<"P", "i", "l", "o", "t">>), Str(<<"$", "7">>)),
      Elem(Null, Str(<<"$", "5">>)),
      Elem(Str(<<" ">>), Str(<<"$", "8">>)),
      Elem(Str(<<"F", "i", "e", "l", "d">>), Null) }

Link(container, text) == [container |-> container, text |-> text]

ProbeLinks ==
    { Link(Null, <<"D", "i", "v", "e", "r", " ", "4", "0", "m", "m">>),
      Link(Elem(Null, Null), <<"Q", "u", "i", "c", "k", " ", "v", "i", "e", "w">>),
      Link(Elem(Str(<<"R", "a", "c", "e", "r", " ", "3", "8", " ", "M", "M">>), Null), <<"x">>),
      Link(Elem(Null, Str(<<"$", "9">>)), <<" ", "R", "a", "c", "e", "r", " ", "3", "8", " ", "M", "M", " ">>),
      Link(Elem(Str(<<"a", "b", "c">>), Str(<<"$", "1">>)), <<"x">>),
      Link(Elem(Str(<<"P", "i", "l", "o", "t">>), Str(<<>>)), <<"x">>) }

Doc(items, links) == [k |-> "html", items |-> items, links |-> links]

ProbeDocs ==
    {Doc(items, links) : items \in SeqsUpTo(ProbeItems, MaxElements),
                         links \in SeqsUpTo(ProbeLinks, MaxElements)}

Call(scraper, response, body) ==
    [k |-> "call", scraper |-> scraper, response |-> response, body |-> body]

\* a fetch that rejects carries no body; a response that is not ok carries
\* one as well as one that is
ScraperCalls ==
    {Call("scrapeShopifyStore", "ok", b) : b \in BrokenBodies \cup ProbeFeeds}
    \cup {Call("scrapeShopifyStore", "notok", b) : b \in {Null, Feed(<<ProductA>>)}}
    \cup {Call("scrapeFalcoWatches", "ok", b) : b \in {[k |-> "reject"]} \cup ProbeDocs}
    \cup {Call("scrapeFalcoWatches", "notok", b) :
            b \in {[k |-> "reject"], Doc(<<>>, <<>>)}}
    \cup {Call(f, "reject", Null) : f \in {"scrapeShopifyStore", "scrapeFalcoWatches"}}

ProbeSource == [name |-> SourceName(1), enabled |-> TRUE, scraper |-> "scrapeShopifyStore"]

InitScrape ==
    /\ registry = <<ProbeSource>>
    /\ world = "small"
    /\ faults = {"none"}
    /\ storage = [watches |-> Null, timestamp |-> Null]
    /\ now = 1
    /\ watches = <<>>
    /\ loading = FALSE
    /\ errorShown = FALSE
    /\ lastUpdate = Null
    /\ started = FALSE
    /\ cycles = <<>>
    /\ ignored = FALSE
    /\ last = NoRun
    /\ given \in ScraperCalls
    /\ returned = NotCalled

CallShopify ==
    /\ given.scraper = "scrapeShopifyStore"
    /\ returned = NotCalled
    /\ returned' = ShopifyCall(registry[1], given.response, given.body, now)
    /\ UNCHANGED <<registry, world, faults, storage, now, watches, loading, errorShown,
                   lastUpdate, started, cycles, ignored, last, given>>

CallFalco ==
    /\ given.scraper = "scrapeFalcoWatches"
    /\ returned = NotCalled
    /\ returned' = scrapeFalcoWatches(given.response, given.body, now)
    /\ UNCHANGED <<registry, world, faults, storage, now, watches, loading, errorShown,
                   lastUpdate, started, cycles, ignored, last, given>>

NextScrape == CallShopify \/ CallFalco

SpecScrape == InitScrape /\ [][NextScrape]_vars

(***************************************************************************)
(* Helpers of the properties.                                              *)
(***************************************************************************)
Range(seq) == {seq[i] : i \in DOMAIN seq}

\* how often x occurs in seq
Count(seq, x) == Cardinality({i \in DOMAIN seq : seq[i] = x})

Min(a, b) == IF a < b THEN a ELSE b

\* a >= b in JavaScript: false when either is no number
GreaterEq(a, b) == a.k = "number" /\ b.k = "number" /\ a.n >= b.n

RECURSIVE Concat(_)
Concat(seqs) == IF seqs = <<>> THEN <<>> ELSE Head(seqs) \o Concat(Tail(seqs))

\* the enabled sources in registry order
EnabledKeys(reg) ==
    LET RECURSIVE From(_)
        From(i) == IF i > Len(reg) THEN <<>>
                   ELSE (IF reg[i].enabled THEN <<i>> ELSE <<>>) \o From(i + 1)
    IN  From(1)

LogKeys(log) == [i \in DOMAIN log |-> log[i].key]

LogWatches(log) == [i \in DOMAIN log |-> log[i].watches]

\* a run of refresh() has come to its end, with a published result
Succeeded == last.result = "success"

(***************************************************************************)
(* C1.  At most one run of refresh() is under way at any time, loading is  *)
(* true exactly while one is, and a call of refresh() made while loading   *)
(* is true (a click, since the startup call finds loading false) returns   *)
(* without issuing a fetch and without changing watches, either cache      *)
(* slot, the error state or the loading flag.                              *)
(***************************************************************************)
C1_SingleRefresh ==
    /\ [](Len(cycles) <= 1 /\ (loading <=> cycles # <<>>))
    /\ [][(loading /\ Click) =>
            UNCHANGED <<watches, storage, errorShown, loading, cycles, lastUpdate, last>>]_vars

\* a call was ignored while a run waits for its fetch
C1_Witness == ignored /\ loading /\ Len(cycles) = 1

(***************************************************************************)
(* C2.  When a run of refresh() has ended, every enabled source was        *)
(* scraped, in registry order, whether or not the scrapers before it       *)
(* threw; a source whose scraper threw gave no records and the records of  *)
(* every other source are all in the aggregation, in that order; and the   *)
(* run succeeded if at least one record was gathered.                      *)
(***************************************************************************)
C2_FailuresAbsorbed ==
    last.result # "none" =>
        /\ LogKeys(last.log) = EnabledKeys(registry)
        /\ \A i \in DOMAIN last.log : ~last.log[i].ok => last.log[i].watches = <<>>
        /\ last.gathered = Concat(LogWatches(last.log))
        /\ (last.gathered # <<>> => last.result = "success")

\* the first source threw, a later one gave records, and the run succeeded
C2_Witness ==
    /\ Succeeded
    /\ Len(last.log) = 2
    /\ ~last.log[1].ok
    /\ last.log[2].ok /\ last.log[2].watches # <<>>
    /\ watches = TopWatches(last.log[2].watches)

(***************************************************************************)
(* C3.  A run of refresh() ends in failure exactly when the gathered       *)
(* sequence is empty (so also when every source is disabled and when every *)
(* scraper throws), and while no run is under way after a failed one the   *)
(* error message is shown.                                                 *)
(***************************************************************************)
C3_NoRecordsOutcome ==
    last.result # "none" =>
        /\ (last.result = "failed") <=> (last.gathered = <<>>)
        /\ (last.result = "failed" /\ cycles = <<>>) => errorShown

\* a source is disabled, every scraper that ran threw, the run failed
C3_Witness ==
    /\ last.result = "failed"
    /\ \E i \in DOMAIN registry : ~registry[i].enabled
    /\ last.log # <<>>
    /\ \A i \in DOMAIN last.log : ~last.log[i].ok
    /\ errorShown /\ cycles = <<>>

(***************************************************************************)
(* C4.  As claimed: with no source in the registry a run of refresh()      *)
(* succeeds with an empty result and shows no error.                       *)
(***************************************************************************)
C4_EmptyRegistrySucceeds ==
    (registry = <<>> /\ last.result # "none") =>
        (last.result = "success" /\ ~errorShown)

(***************************************************************************)
(* C5.  As claimed: after a successful refresh the published sequence is   *)
(* ordered by non-increasing timestamp, and two records with equal         *)
(* timestamps stand in the order they had in the gathered sequence.        *)
(***************************************************************************)
C5_SortedStable ==
    Succeeded =>
        /\ \A i, j \in DOMAIN watches :
              i < j => GreaterEq(watches[i].timestamp, watches[j].timestamp)
        /\ \A i, j \in DOMAIN watches :
              (i < j /\ watches[i].timestamp = watches[j].timestamp) =>
                  \E p, q \in DOMAIN last.gathered :
                      /\ p < q
                      /\ last.gathered[p] = watches[i]
                      /\ last.gathered[q] = watches[j]

(***************************************************************************)
(* C6.  As claimed: after a successful refresh over n gathered records the *)
(* published sequence has min(n, MAX_WATCHES) records, and every retained  *)
(* record has a timestamp greater than or equal to that of every record    *)
(* that was cut off.                                                       *)
(***************************************************************************)
CutOff == {x \in Range(last.gathered) : Count(last.gathered, x) > Count(watches, x)}

C6_CapKeepsNewest ==
    Succeeded =>
        /\ Len(watches) = Min(Len(last.gathered), MAX_WATCHES)
        /\ \A x \in CutOff : \A i \in DOMAIN watches :
              GreaterEq(watches[i].timestamp, x.timestamp)

C8_Sequential ==
    \A n \in DOMAIN cycles :
        LET c == cycles[n]
        IN  /\ c.pending = {c.key}
            /\ registry[c.key].enabled
            /\ LogKeys(c.log) = SubSeq(EnabledKeys(registry), 1, Len(c.log))
            /\ \A i \in DOMAIN c.log : c.log[i].key < c.key
            /\ c.key = EnabledKeys(registry)[Len(c.log) + 1]

\* the second source is being fetched after the first has settled
C8_Witness ==
    \E n \in DOMAIN cycles :
        /\ cycles[n].key = 2
        /\ Len(cycles[n].log) = 1
        /\ cycles[n].pc = "awaitFetch"

(***************************************************************************)
(* C9.  If every fetch and every body settles, loading = TRUE leads to     *)
(* loading = FALSE; loading is cleared only by the step in which a fetch   *)
(* or a body settles, so it stays TRUE while a fetch hangs, and a call     *)
(* made meanwhile starts no run; once it is FALSE a call starts a run.     *)
(***************************************************************************)
C9_LoadingCleared ==
    /\ loading ~> ~loading
    /\ [][(loading /\ ~loading') =>
            \E n \in DOMAIN cycles : FetchResolve(n) \/ BodyResolve(n)]_vars
    /\ [][(loading /\ Click) => (loading' /\ cycles' = cycles)]_vars
    /\ [][(~loading /\ Click /\ EnabledKeys(registry) # <<>>) =>
            (loading' /\ Len(cycles') = 1)]_vars

\* a run is under way after an earlier one came to its end
C9_Witness == loading /\ last.result # "none" /\ cycles # <<>>

(***************************************************************************)
(* C10.  As claimed: after a successful refresh, loadFromCache gives back  *)
(* the published records field for field and the time that was written.    *)
(***************************************************************************)
C10_CacheRoundTrip ==
    Succeeded =>
        LET cached == loadFromCache(saveToCache(storage, watches, now, "none"))
        IN  /\ cached # Null
            /\ cached.watches = watches
            /\ cached.timestamp = Num(now)

(***************************************************************************)
(* C11.  loadFromCache gives "no cache" when a slot is absent or the       *)
(* records slot holds text that is no JSON; it is a total function, so it  *)
(* never throws.  A startup that finds no cache leaves watches empty and   *)
(* the update time unset and goes on to refresh(): a fetch is issued and   *)
(* no error is shown, or, with no enabled source, the refresh ends at once *)
(* in its own NoRecords failure.                                           *)
(***************************************************************************)
NoUsableCache(store) ==
    \/ store.watches = Null
    \/ store.timestamp = Null
    \/ store.watches.k = "text"

C11_CacheReadNeverFails ==
    /\ [](NoUsableCache(storage) => loadFromCache(storage) = Null)
    /\ [][(LoadWatches /\ NoUsableCache(storage)) =>
            /\ watches' = <<>>
            /\ lastUpdate' = Null
            /\ IF EnabledKeys(registry) # <<>>
               THEN loading' /\ Len(cycles') = 1 /\ ~errorShown' /\ last' = NoRun
               ELSE last'.result = "failed"]_vars

\* the page was opened on a records slot that is no JSON, and the first
\* fetch is under way
C11_Witness ==
    /\ started
    /\ storage.watches = [k |-> "text", s |-> <<"{">>]
    /\ storage.timestamp # Null
    /\ last = NoRun
    /\ loading /\ Len(cycles) = 1
    /\ watches = <<>> /\ ~errorShown

(***************************************************************************)
(* C12.  Nothing is fetched before startup.  Startup calls refresh() once: *)
(* while the run it starts has not ended it is the one run under way, and  *)
(* the in-memory result, which displayWatches has rendered, is the cached  *)
(* one when the cache is usable and the empty one otherwise.               *)
(***************************************************************************)
C12_CacheThenRefresh ==
    /\ [](~started => (cycles = <<>> /\ last = NoRun /\ ~loading))
    /\ []((started /\ last = NoRun) =>
            /\ Len(cycles) = 1
            /\ LET cached == loadFromCache(storage)
               IN  IF cached # Null
                   THEN watches = cached.watches /\ lastUpdate = cached.timestamp
                   ELSE watches = <<>> /\ lastUpdate = Null)
    /\ [][LoadWatches =>
            /\ ~started /\ started'
            /\ (Len(cycles') = 1 /\ last' = NoRun) \/ (cycles' = <<>> /\ last' # NoRun)
            /\ LET cached == loadFromCache(storage)
               IN  cached # Null => watches' = cached.watches]_vars

\* the cached result is in memory while the first fetch is awaited
C12_Witness ==
    /\ started
    /\ last = NoRun
    /\ Len(cycles) = 1
    /\ cycles[1].pc = "awaitFetch" /\ cycles[1].log = <<>>
    /\ watches = <<CachedWatch>>
    /\ lastUpdate = Num(1)

(***************************************************************************)
(* Helpers of the properties of the scrapers.                              *)
(***************************************************************************)
ShopifyReturned == returned # NotCalled /\ given.scraper = "scrapeShopifyStore"

FalcoReturned == returned # NotCalled /\ given.scraper = "scrapeFalcoWatches"

\* the parsed top level holds an array of products
HasProducts(body) == body.k = "object" /\ body.products.k = "array"

\* scrapeShopifyStore was given a feed it could read
FeedRead == ShopifyReturned /\ given.response = "ok" /\ HasProducts(given.body)

\* the entry lacks a title (absent, no text, or empty after trimming), has
\* no variant, has no price on its first variant, or has a price that is no
\* number
Defective(p) ==
    \/ p.k # "object"
    \/ p.title.k # "string"
    \/ Trim(p.title.s) = <<>>
    \/ p.variants.k # "array"
    \/ p.variants.items = <<>>
    \/ p.variants.items[1].k # "object"
    \/ p.variants.items[1].price.k \in {"undefined", "null"}
    \/ p.variants.items[1].price = Str(<<>>)
    \/ ParseFloat(p.variants.items[1].price).k = "nan"

\* the entries of the feed that are not defective, in feed order
Sound(products) == SelectSeq(products, LAMBDA p : ~Defective(p))

(***************************************************************************)
(* C13.  Given a feed it can read, scrapeShopifyStore does not throw, and  *)
(* it returns one record for each entry that is not defective, named by    *)
(* the entry's title, in feed order: a defective entry gives no record and *)
(* takes none away from the others.                                        *)
(***************************************************************************)
C13_DefectiveSkipped ==
    FeedRead =>
        LET sound == Sound(given.body.products.items)
        IN  /\ returned.ok
            /\ Len(returned.watches) = Len(sound)
            /\ \A i \in DOMAIN sound : returned.watches[i].name = sound[i].title.s

\* a defective entry stood before a sound one, whose record was returned
C13_Witness ==
    /\ FeedRead
    /\ LET items == given.body.products.items
       IN  \E i, j \in DOMAIN items :
              i < j /\ Defective(items[i]) /\ ~Defective(items[j])
    /\ returned.ok /\ returned.watches # <<>>

(***************************************************************************)
(* C14.  As claimed: every record scrapeShopifyStore returns has a price   *)
(* made of the currency symbol, one or more digits, a point and two        *)
(* digits.                                                                 *)
(***************************************************************************)
PriceFormat(price) ==
    /\ Len(price) >= Len(CurrencySymbol) + 4
    /\ SubSeq(price, 1, Len(CurrencySymbol)) = CurrencySymbol
    /\ price[Len(price) - 2] = "."
    /\ \A i \in (Len(CurrencySymbol) + 1)..Len(price) :
          i # Len(price) - 2 => IsDigit(price[i])

C14_PriceFormat ==
    ShopifyReturned =>
        \A i \in DOMAIN returned.watches : PriceFormat(returned.watches[i].price)

(***************************************************************************)
(* C15.  As claimed: the record of every sound entry carries a number as   *)
(* its timestamp: the time created_at spells when it is a date, and the    *)
(* time of the extraction when created_at is absent or is no date.         *)
(***************************************************************************)
ClaimedTimestamp(p, t) ==
    IF p.created_at.k = "string" /\ DateGetTime(p.created_at).k = "number"
    THEN DateGetTime(p.created_at)
    ELSE Num(t)

C15_TimestampDefault ==
    FeedRead =>
        LET sound == Sound(given.body.products.items)
        IN  \A i \in DOMAIN returned.watches :
              i \in DOMAIN sound =>
                  returned.watches[i].timestamp = ClaimedTimestamp(sound[i], now)

(***************************************************************************)
(* C16.  A scraper throws exactly when the fetch rejects, the response is  *)
(* not ok, the body cannot be read, or, for the feed, the parsed body      *)
(* holds no array of products (a body that is no JSON holds none); when it *)
(* throws no record comes out of it, and in every other case it returns a  *)
(* list.                                                                   *)
(***************************************************************************)
C16_WholeFailure ==
    returned # NotCalled =>
        /\ returned.ok <=>
              /\ given.response = "ok"
              /\ IF given.scraper = "scrapeShopifyStore"
                 THEN HasProducts(given.body)
                 ELSE given.body.k = "html"
        /\ ~returned.ok => returned.watches = <<>>

\* the response was ok and its body JSON, but without an array of products
C16_Witness ==
    /\ ShopifyReturned
    /\ given.response = "ok"
    /\ given.body.k = "object"
    /\ ~HasProducts(given.body)
    /\ ~returned.ok

(***************************************************************************)
(* C17.  When scrapeFalcoWatches returns, the fallback pass has run (its   *)
(* warning was written) exactly when the primary pass pushed no record,    *)
(* and when the primary pass pushed one, every record returned is one the  *)
(* primary pass pushed.                                                    *)
(***************************************************************************)
C17_FallbackOnlyWhenEmpty ==
    (FalcoReturned /\ returned.ok) =>
        LET primary == PrimaryPass(given.body.items, now)
        IN  /\ returned.warned <=> primary = <<>>
            /\ primary # <<>> =>
                  \A i \in DOMAIN returned.watches : returned.watches[i] \in Range(primary)

\* the primary pass found a record in a document whose links the fallback
\* pass would have taken records from
C17_Witness ==
    /\ FalcoReturned /\ returned.ok
    /\ ~returned.warned
    /\ returned.watches # <<>>
    /\ FallbackPass(given.body.links, now) # <<>>

(***************************************************************************)
(* C18.  The records scrapeFalcoWatches returns have pairwise distinct     *)
(* names: they are the accepted candidates that no earlier candidate       *)
(* shares its name with, in the order of the candidates.                   *)
(***************************************************************************)
\* the candidates the passes accepted, before line 634
Accepted(doc, t) ==
    IF PrimaryPass(doc.items, t) # <<>> THEN PrimaryPass(doc.items, t)
    ELSE FallbackPass(doc.links, t)

C18_FirstOccurrences ==
    (FalcoReturned /\ returned.ok) =>
        LET c == Accepted(given.body, now)
            out == returned.watches
            keep == {i \in DOMAIN c : \A j \in 1..(i - 1) : c[j].name # c[i].name}
        IN  /\ \A i, j \in DOMAIN out : i # j => out[i].name # out[j].name
            /\ Len(out) = Cardinality(keep)
            /\ \E f \in [DOMAIN out -> keep] :
                  /\ \A i, j \in DOMAIN out : i < j => f[i] < f[j]
                  /\ \A i \in DOMAIN out : out[i] = c[f[i]]

\* a candidate that shares its name with an earlier one was dropped
C18_Witness ==
    /\ FalcoReturned /\ returned.ok
    /\ returned.watches # <<>>
    /\ Len(Accepted(given.body, now)) > Len(returned.watches)

(***************************************************************************)
(* C19.  As claimed: every record a scraper returns has the five fields    *)
(* name, price, size, source and timestamp, none of them empty.            *)
(***************************************************************************)
FiveFields(w) ==
    /\ {"name", "price", "size", "source", "timestamp"} \subseteq DOMAIN w
    /\ w.name # <<>>
    /\ w.price # <<>>
    /\ w.size # <<>>
    /\ w.source # <<>>
    /\ w.timestamp.k = "number"

C19_FiveFields ==
    returned # NotCalled =>
        \A i \in DOMAIN returned.watches : FiveFields(returned.watches[i])

(***************************************************************************)
(* C20.  The sources a run of refresh() has fetched so far, the one it     *)
(* waits for included, are enabled and pairwise different; a run that      *)
(* waits moves on to a later source or to the body of the same fetch,      *)
(* never back to a source it has fetched, whether that fetch failed or     *)
(* not; and when the run has ended every enabled source was fetched once   *)
(* and no disabled one.                                                    *)
(***************************************************************************)
Fetched(c) == LogKeys(c.log) \o <<c.key>>

C20_FetchedOnce ==
    /\ [](\A n \in DOMAIN cycles :
            LET f == Fetched(cycles[n])
            IN  /\ \A i, j \in DOMAIN f : i # j => f[i] # f[j]
                /\ \A i \in DOMAIN f : registry[f[i]].enabled)
    /\ [](last.result # "none" =>
            \A key \in DOMAIN registry :
                Count(LogKeys(last.log), key) = IF registry[key].enabled THEN 1 ELSE 0)
    /\ [][\A n \in DOMAIN cycles :
            (Len(cycles') = Len(cycles)) =>
                /\ cycles'[n].key >= cycles[n].key
                /\ cycles'[n].key = cycles[n].key => cycles'[n].log = cycles[n].log]_vars

\* a source that failed in the run that ended is fetched again by the run
\* a click has started since
C20_Witness ==
    /\ last.result # "none"
    /\ Len(cycles) = 1
    /\ \E i \in DOMAIN last.log : ~last.log[i].ok /\ last.log[i].key = cycles[1].key

(***************************************************************************)
(* C21.  When a run of refresh() ends in success, this.watches holds only  *)
(* records the run gathered, each no more often than it was gathered: a    *)
(* record this.watches held before (from the cache or from an earlier run) *)
(* that the run did not gather is not in it afterwards.                    *)
(***************************************************************************)
\* the step brings a run of refresh() to its end (lines 112-129)
RunEnded == Len(cycles') < Len(cycles) \/ (cycles = <<>> /\ cycles' = <<>>)

C21_ReplacedNotMerged ==
    /\ [](Succeeded =>
            \A i \in DOMAIN watches :
                Count(watches, watches[i]) <= Count(last.gathered, watches[i]))
    /\ [][(RunEnded /\ last'.result = "success") =>
            \A i \in DOMAIN watches :
                watches[i] \notin Range(last'.gathered) =>
                    watches[i] \notin Range(watches')]_vars

\* the storage still holds the cache the page was opened with, which
\* loadWatches put in this.watches, and the run that succeeded left the
\* cached record out
C21_Witness ==
    /\ Succeeded
    /\ storage.watches = JSONstringify(<<CachedWatch>>)
    /\ SlotTruthy(storage.timestamp)
    /\ watches # <<>>
    /\ CachedWatch \notin Range(watches)

(***************************************************************************)
(* C22.  The storage changes only in a step that ends a run of refresh()   *)
(* in success.  A step that ends a run in failure, and a step of a run     *)
(* that goes on, leave the storage and this.watches as they were (at       *)
(* startup: as loadWatches set this.watches from the cache).               *)
(***************************************************************************)
C22_FailureLeavesAll ==
    /\ [][storage' # storage => (RunEnded /\ last'.result = "success")]_vars
    /\ [][(~RunEnded \/ last'.result = "failed") =>
            /\ storage' = storage
            /\ watches' = LET cached == loadFromCache(storage)
                          IN  IF ~started /\ cached # Null THEN cached.watches
                              ELSE watches]_vars

\* a run has failed after one that succeeded: the records that one
\* published are in memory and in the cache
C22_Witness ==
    /\ last.result = "failed"
    /\ cycles = <<>>
    /\ watches # <<>>
    /\ watches # <<CachedWatch>>
    /\ storage.watches = JSONstringify(watches)
    /\ loadFromCache(storage) # Null

(***************************************************************************)
(* C23.  While no run of refresh() is under way and one has ended, the     *)
(* error is shown exactly when the last run that ended failed.  A step     *)
(* that starts a run leaves the error hidden, and a call of refresh() that *)
(* returns at line 87 leaves the error as it was.                          *)
(***************************************************************************)
C23_ErrorTracksLastRun ==
    /\ []((cycles = <<>> /\ last.result # "none") =>
            (errorShown <=> last.result = "failed"))
    /\ [][Len(cycles') > Len(cycles) => ~errorShown']_vars
    /\ [][(cycles # <<>> /\ cycles' = cycles /\ ignored') =>
            errorShown' = errorShown]_vars

\* a run that had records in memory when it started has failed
C23_Witness ==
    /\ cycles = <<>>
    /\ last.result = "failed"
    /\ last.log # <<>>
    /\ errorShown
    /\ watches # <<>>

(***************************************************************************)
(* C24.  With a storage whose setItem may throw, a step that ends a run of *)
(* refresh() in success publishes the records, shows no error and clears   *)
(* loading whatever the storage did; each slot is left as it was or holds  *)
(* the new value, and the timestamp slot is new only if the records slot   *)
(* is.  A records slot without a timestamp slot reads back as no cache.    *)
(***************************************************************************)
C24_WriteFailureAbsorbed ==
    /\ [][(RunEnded /\ last'.result = "success") =>
            /\ watches' = TopWatches(last'.gathered)
            /\ ~errorShown' /\ ~loading'
            /\ lastUpdate' = Num(now)
            /\ storage'.watches \in {storage.watches, JSONstringify(watches')}
            /\ storage'.timestamp \in
                  {storage.timestamp, [k |-> "text", s |-> IntToStr(now)]}
            /\ storage'.timestamp # storage.timestamp =>
                  storage'.watches = JSONstringify(watches')]_vars
    /\ []((SlotTruthy(storage.watches) /\ ~SlotTruthy(storage.timestamp)) =>
            loadFromCache(storage) = Null)

\* the second setItem threw on a storage that held no timestamp: the run
\* succeeded, the records slot is new and the cache reads as absent
C24_Witness ==
    /\ Succeeded
    /\ cycles = <<>>
    /\ ~errorShown /\ ~loading
    /\ watches # <<>>
    /\ storage.watches = JSONstringify(watches)
    /\ storage.timestamp = Null
    /\ loadFromCache(storage) = Null

(***************************************************************************)
(* C25.  The records scrapeFalcoWatches returns are named after the items  *)
(* whose name text and price text are both non-empty after trimming, each  *)
(* with the price of such an item of its name; when there is no such item, *)
(* after the links that have a container and whose name (the text of the   *)
(* container's name element, else of the link) is longer than three        *)
(* characters and does not hold "quick" in any case, each with the price   *)
(* text of the container of such a link, or "Price N/A" where the          *)
(* container has no price element.  Nothing else is returned and the call  *)
(* does not throw over a candidate it drops.                               *)
(***************************************************************************)
NonEmptyText(text) == text.k = "string" /\ Trim(text.s) # <<>>

\* lines 572-573, 584
PrimaryAccepts(item) == NonEmptyText(item.name) /\ NonEmptyText(item.price)

\* line 613
ResolvedName(link) ==
    IF link.container.name.k = "string" THEN Trim(link.container.name.s)
    ELSE Trim(link.text)

\* line 614
ResolvedPrice(link) ==
    IF link.container.price.k = "string" THEN Trim(link.container.price.s)
    ELSE NoPrice

\* lines 608, 616
FallbackAccepts(link) ==
    /\ link.container # Null
    /\ ResolvedName(link) # <<>>
    /\ Len(ResolvedName(link)) > 3
    /\ ~Includes(ToLowerCase(ResolvedName(link)), Quick)

C25_CandidateAcceptance ==
    (FalcoReturned /\ returned.ok) =>
        LET items == given.body.items
            links == given.body.links
            out == returned.watches
            accItems == {i \in DOMAIN items : PrimaryAccepts(items[i])}
            accLinks == {i \in DOMAIN links : FallbackAccepts(links[i])}
        IN  IF accItems # {}
            THEN /\ {out[i].name : i \in DOMAIN out} =
                        {Trim(items[j].name.s) : j \in accItems}
                 /\ \A i \in DOMAIN out : \E j \in accItems :
                        /\ out[i].name = Trim(items[j].name.s)
                        /\ out[i].price = Trim(items[j].price.s)
            ELSE /\ {out[i].name : i \in DOMAIN out} =
                        {ResolvedName(links[j]) : j \in accLinks}
                 /\ \A i \in DOMAIN out : \E j \in accLinks :
                        /\ out[i].name = ResolvedName(links[j])
                        /\ out[i].price = ResolvedPrice(links[j])

\* every item was dropped, a link without a container was skipped and a
\* link whose container has no price element gave a record
C25_Witness ==
    /\ FalcoReturned /\ returned.ok
    /\ given.body.items # <<>>
    /\ returned.warned
    /\ \E j \in DOMAIN given.body.links : given.body.links[j].container = Null
    /\ \E i \in DOMAIN returned.watches : returned.watches[i].price = NoPrice

====
